---- MODULE Spec2Model ----
(***************************************************************************)
(* A state-machine model of the rotating log-file writer of                *)
(* src/logger/logfile.go (type LogFile and its methods fileNamePattern,    *)
(* openNew, rotate, pruneFiles and Write), together with the part of the   *)
(* operating system it acts on: one directory of files, the table of open  *)
(* file handles, the system clock (time.Now) and the package variable      *)
(* `now`, which a test may replace by a clock of its own.                  *)
(*                                                                         *)
(* Time is counted in ticks; TicksPerSecond ticks make one second.  File   *)
(* names are records [stem, stamp, ext]: "app-<stamp>.log" is              *)
(* [stem |-> "app", stamp |-> <unix seconds>, ext |-> ".log"] and a name   *)
(* without a time stamp has stamp NoStamp.                                 *)
(***************************************************************************)
EXTENDS Integers, Sequences, FiniteSets, TLC

\* ------------------------------------------------------------------ bounds
\* Write calls made in one behaviour, over all callers.
MaxCalls == 2
\* Clock advances made in one behaviour.
MaxTicks == 1
\* Resolution of the model's clock: ticks per second.
TicksPerSecond == 2

\* ------------------------------------------------------------- time values
Hour == 3600 * TicksPerSecond
\* The retention window of rotate: 30*24*time.Hour.
Retention == 30 * 24 * Hour
\* time.Time{}: the value of LastCreated before the first open.
ZeroTime == 0 - (400 * 24 * Hour)
\* The amounts by which a clock is advanced.
ClockSteps == {1, Hour}

\* ------------------------------------------------------------------ callers
Procs == {"p1", "p2"}
\* A record handed to Write: its length and whether logFilter.Check accepts it.
Records ==
  {[len |-> 50, pass |-> TRUE], [len |-> 60, pass |-> TRUE], [len |-> 50, pass |-> FALSE]}
\* Byte counts a failing File.Write may report (always less than len(b)).
PartialCounts == {20}

\* --------------------------------------------------------------- file names
NoStamp == -1
NoName == [stem |-> "", stamp |-> NoStamp, ext |-> ""]
Name(stem, stamp, ext) == [stem |-> stem, stamp |-> stamp, ext |-> ext]

Nil == 0
NoErr == "nil"

VARIABLES
  \* configuration of the LogFile, fixed at construction
  fileName, duration, MaxBytes, MaxFiles,
  \* mutable fields of the LogFile
  fullName, rotateName, LastCreated, FileInfo, BytesWritten, acquire,
  \* operating system: directory, handle table, system clock
  files, fds, sysTime,
  \* the package variable `now`: "system" (time.Now) or "fake", and the fake clock
  nowFn, fakeTime,
  \* every caller: position in Write, argument b, locals, returned (n, err)
  pc, b, tmp, timeElapsed, ret,
  \* history: what each call saw and did, and totals over the behaviour
  call, hist

cfgVars == <<fileName, duration, MaxBytes, MaxFiles>>
logVars == <<fullName, rotateName, LastCreated, FileInfo, BytesWritten>>
osVars == <<files, fds>>
clockVars == <<sysTime, nowFn, fakeTime>>
procVars == <<pc, b, tmp, timeElapsed, ret>>
vars == <<cfgVars, logVars, acquire, osVars, clockVars, procVars, call, hist>>

\* ------------------------------------------------------- pure functions
\* filepath.Ext(l.fileName), with ".log" when the name has no extension, and
\* the name with that extension trimmed; the "%s" slot is the stamp field.
fileNamePattern ==
  LET fileExt == IF fileName.ext = "" THEN ".log" ELSE fileName.ext
  IN  [stem |-> fileName.stem, ext |-> fileExt]

\* fmt.Sprintf(pattern, s): the pattern with its slot filled by stamp s.
Sprintf(pattern, s) == Name(pattern.stem, s, pattern.ext)

\* time.Unix(t.Unix(), 0).Format("20060102150405"): t cut to whole seconds.
Format(t) == t \div TicksPerSecond

\* The package variable `now`: time.Now unless a test has replaced it.
now == IF nowFn = "system" THEN sysTime ELSE fakeTime

\* time.Since(t): always the system clock.
Since(t) == sysTime - t

\* strings.HasSuffix(f.Name(), ".log")
HasLogSuffix(n) == n.ext = ".log"

\* The order in which filepath.Walk visits the names of a directory (lexical
\* order of the names as strings): "aaa..." < "app-<stamp>..." < "app...." <
\* "zzz...", stamped names by stamp, then by extension.
StemRank(s) == CASE s = "aaa" -> 1 [] s = "app" -> 2 [] s = "zzz" -> 3 [] OTHER -> 0
ExtRank(e) == CASE e = ".log" -> 1 [] e = ".txt" -> 2 [] OTHER -> 0
NameLess(x, y) ==
  \/ StemRank(x.stem) < StemRank(y.stem)
  \/ /\ x.stem = y.stem
     /\ \/ x.stamp # NoStamp /\ y.stamp = NoStamp
        \/ x.stamp # NoStamp /\ y.stamp # NoStamp /\ x.stamp < y.stamp
        \/ x.stamp = y.stamp /\ ExtRank(x.ext) < ExtRank(y.ext)

\* ------------------------------------------------------ operating system
Max(S) == CHOOSE x \in S : \A y \in S : y <= x

\* An inode number no file and no handle refers to.
FreshIno(fs, hs) ==
  1 + Max({0} \cup {fs[n].ino : n \in DOMAIN fs} \cup {hs[h].ino : h \in DOMAIN hs})

Exists(fs, n) == n \in DOMAIN fs

Put(fs, n, f) == [m \in DOMAIN fs \cup {n} |-> IF m = n THEN f ELSE fs[m]]

Remove(fs, S) == [m \in DOMAIN fs \ S |-> fs[m]]

\* os.OpenFile(path, O_CREATE|O_APPEND|O_WRONLY): the directory afterwards.
\* An existing file is opened as it is (no O_TRUNC); a missing one is created.
OpenFile(fs, hs, path) ==
  IF Exists(fs, path) THEN fs
  ELSE Put(fs, path, [ino |-> FreshIno(fs, hs), size |-> 0, mtime |-> sysTime])

\* Mutant of Close: the handle stays open.
Close_Noop(hs, h) == hs

\* (*os.File).Close: the handle is closed (closing a closed one changes nothing).
Close(hs, h) == [hs EXCEPT ![h].open = FALSE]

\* os.Rename(old, new) when it succeeds: new names old's file, replacing any
\* file that had the name.
Rename(fs, old, new) ==
  IF Exists(fs, old) /\ old # new
  THEN Put(Remove(fs, {old}), new, fs[old])
  ELSE fs

\* The file (if still linked) that handle h writes to gets k more bytes.
Append_(fs, hs, h, k) ==
  [n \in DOMAIN fs |->
     IF fs[n].ino = hs[h].ino /\ k > 0
     THEN [fs[n] EXCEPT !.size = @ + k, !.mtime = sysTime]
     ELSE fs[n]]

\* The results (n, err) that (*os.File).Write(b) can give on handle h.
WriteResults(hs, h, rec) ==
  IF ~hs[h].open THEN {<<0, "closed">>}
  ELSE {<<rec.len, NoErr>>} \cup {<<k, "write">> : k \in PartialCounts}

OpenHandles == {h \in DOMAIN fds : fds[h].open}

\* The files the directory walk of rotate tries to delete: filepath.Walk visits
\* the names in lexical order; a name without the ".log" suffix is passed over,
\* a ".log" file older than the retention window is removed, and the first
\* ".log" file that is not (filepath.SkipDir returned for a file) ends the walk.
Stale(fs, n) == Since(fs[n].mtime) > Retention
WalkRemoves(fs) ==
  LET logs == {n \in DOMAIN fs : HasLogSuffix(n)}
  IN  {n \in logs : \A m \in logs : (m = n \/ NameLess(m, n)) => Stale(fs, m)}

\* -------------------------------------------------------------- history
NoCall == [rotated |-> FALSE, bw0 |-> -1, sinceNow |-> -1, snap |-> <<>>, sideErr |-> {}]
Snapshot == <<fullName, rotateName, LastCreated, FileInfo, BytesWritten, files, fds>>

\* ----------------------------------------------------------- the LogFile
\* Mutant of CanLock: the mutex excludes nobody.
CanLock_Always(p) == TRUE

\* l.acquire.Lock() returns only when no caller holds the mutex.
CanLock(p) == acquire = "free"

\* return n, err from Write: the deferred l.acquire.Unlock() runs.
\* Mutant of Return: the mutex is unlocked at the end of a Write that went
\* well, not by a deferred call.
Return_UnlockOnSuccess(p, n, err) ==
  /\ ret' = [ret EXCEPT ![p] = <<n, err>>]
  /\ pc' = [pc EXCEPT ![p] = "idle"]
  /\ acquire' = IF err = NoErr THEN "free" ELSE acquire
  /\ tmp' = [tmp EXCEPT ![p] = 0]
  /\ timeElapsed' = [timeElapsed EXCEPT ![p] = 0]
  /\ call' = [call EXCEPT ![p] = NoCall]

Return(p, n, err) ==
  /\ ret' = [ret EXCEPT ![p] = <<n, err>>]
  /\ pc' = [pc EXCEPT ![p] = "idle"]
  /\ acquire' = "free"
  /\ tmp' = [tmp EXCEPT ![p] = 0]
  /\ timeElapsed' = [timeElapsed EXCEPT ![p] = 0]
  /\ call' = [call EXCEPT ![p] = NoCall]

\* Mutant of openNew: the creation time and the byte counter are reset before
\* the open is tried, so a failed open resets them too.
openNew_ResetFirst(ok) ==
  LET pattern == fileNamePattern
      createTime == now
      newfilePath == Sprintf(pattern, NoStamp)
  IN  /\ rotateName' = Sprintf(pattern, Format(createTime))
      /\ fullName' = newfilePath
      /\ LastCreated' = createTime
      /\ BytesWritten' = 0
      /\ IF ok
         THEN /\ files' = OpenFile(files, fds, newfilePath)
              /\ fds' = Append(fds, [ino |-> files'[newfilePath].ino, open |-> TRUE])
              /\ FileInfo' = Len(fds) + 1
         ELSE UNCHANGED <<files, fds, FileInfo>>

\* openNew: the two names are stored before the open is tried; the handle, the
\* creation time and the byte counter are set only when the open succeeds.
openNew(ok) ==
  LET pattern == fileNamePattern
      createTime == now
      newfilePath == Sprintf(pattern, NoStamp)
  IN  /\ rotateName' = Sprintf(pattern, Format(createTime))
      /\ fullName' = newfilePath
      /\ IF ok
         THEN /\ files' = OpenFile(files, fds, newfilePath)
              /\ fds' = Append(fds, [ino |-> files'[newfilePath].ino, open |-> TRUE])
              /\ FileInfo' = Len(fds) + 1
              /\ LastCreated' = createTime
              /\ BytesWritten' = 0
         ELSE UNCHANGED <<files, fds, FileInfo, LastCreated, BytesWritten>>

\* Mutant of RotateDue: the size test counts the record about to be written.
RotateDue_Incoming(p, elapsed) ==
  \/ BytesWritten + b[p].len >= MaxBytes /\ MaxBytes > 0
  \/ elapsed >= duration

\* Mutant of RotateDue: the size test is missing.
RotateDue_TimeOnly(p, elapsed) == elapsed >= duration

\* Mutant of RotateDue: the size test is made also when MaxBytes is 0.
RotateDue_NoZeroGuard(p, elapsed) ==
  \/ BytesWritten >= MaxBytes
  \/ elapsed >= duration

\* The condition of rotate, on the elapsed time it has just computed.
RotateDue(p, elapsed) ==
  \/ BytesWritten >= MaxBytes /\ MaxBytes > 0
  \/ elapsed >= duration

\* The Write calls one behaviour makes: MaxCalls when both callers run, one
\* more when one caller is switched off and the calls come one after another.
CallBudget == IF \E q \in Procs : pc[q] = "off" THEN MaxCalls + 1 ELSE MaxCalls

\* A caller enters Write with the record rec.
WriteCall(p, rec) ==
  /\ pc[p] = "idle"
  /\ hist.calls < CallBudget
  /\ b' = [b EXCEPT ![p] = rec]
  /\ ret' = [ret EXCEPT ![p] = <<0, "pending">>]
  /\ pc' = [pc EXCEPT ![p] = "filter"]
  /\ hist' = [hist EXCEPT !.calls = @ + 1]
  /\ UNCHANGED <<cfgVars, logVars, acquire, osVars, clockVars, tmp, timeElapsed, call>>

\* l.logFilter.Check(b)
Check(rec) == rec.pass

\* Mutant of Filter: the early return is missing.
Filter_NoReturn(p) ==
  /\ pc[p] = "filter"
  /\ pc' = [pc EXCEPT ![p] = "lock"]
  /\ hist' = [hist EXCEPT !.sumLen = @ + b[p].len]
  /\ UNCHANGED <<cfgVars, logVars, acquire, osVars, clockVars, b, tmp, timeElapsed,
                 call, ret>>

\* if !l.logFilter.Check(b) { return 0, nil }: no lock is taken or released.
Filter(p) ==
  /\ pc[p] = "filter"
  /\ IF ~Check(b[p])
     THEN /\ ret' = [ret EXCEPT ![p] = <<0, NoErr>>]
          /\ pc' = [pc EXCEPT ![p] = "idle"]
          /\ UNCHANGED hist
     ELSE /\ pc' = [pc EXCEPT ![p] = "lock"]
          /\ hist' = [hist EXCEPT !.sumLen = @ + b[p].len]
          /\ UNCHANGED ret
  /\ UNCHANGED <<cfgVars, logVars, acquire, osVars, clockVars, b, tmp, timeElapsed, call>>

\* l.acquire.Lock()
Lock(p) ==
  /\ pc[p] = "lock"
  /\ CanLock(p)
  /\ acquire' = p
  /\ pc' = [pc EXCEPT ![p] = "open"]
  /\ call' = [call EXCEPT ![p].snap = Snapshot]
  /\ UNCHANGED <<cfgVars, logVars, osVars, clockVars, b, tmp, timeElapsed, ret, hist>>

\* if l.FileInfo == nil { if err := l.openNew(); err != nil { return 0, err } }
LazyOpen(p) ==
  /\ pc[p] = "open"
  /\ IF FileInfo = Nil
     THEN \E ok \in BOOLEAN :
            /\ openNew(ok)
            /\ IF ok
               THEN /\ pc' = [pc EXCEPT ![p] = "rotate"]
                    /\ hist' = [hist EXCEPT !.landed = 0]
                    /\ UNCHANGED <<acquire, ret, tmp, timeElapsed, call>>
               ELSE /\ Return(p, 0, "open")
                    /\ hist' = [hist EXCEPT !.clean = FALSE]
     ELSE /\ pc' = [pc EXCEPT ![p] = "rotate"]
          /\ UNCHANGED <<logVars, osVars, acquire, ret, tmp, timeElapsed, call, hist>>
  /\ UNCHANGED <<cfgVars, clockVars, b>>

\* rotate, lines 93-96: the elapsed time, the condition and, when it holds,
\* the close of the active handle.
RotateCheck(p) ==
  /\ pc[p] = "rotate"
  /\ LET elapsed == Since(LastCreated) IN
       /\ timeElapsed' = [timeElapsed EXCEPT ![p] = elapsed]
       /\ call' = [call EXCEPT ![p].bw0 = BytesWritten,
                               ![p].sinceNow = now - LastCreated,
                               ![p].rotated = RotateDue(p, elapsed),
                               ![p].sideErr =
                                 IF RotateDue(p, elapsed) /\ ~fds[FileInfo].open
                                 THEN {"close"} ELSE {}]
       /\ IF RotateDue(p, elapsed)
          THEN /\ fds' = Close(fds, FileInfo)
               /\ pc' = [pc EXCEPT ![p] = "rename"]
               /\ hist' = [hist EXCEPT !.clean = FALSE]
          ELSE /\ pc' = [pc EXCEPT ![p] = "load"]
               /\ UNCHANGED <<fds, hist>>
  /\ UNCHANGED <<cfgVars, logVars, acquire, files, clockVars, b, tmp, ret>>

\* Mutant of RotateRename: the error of os.Rename is returned to the caller.
RotateRename_Returns(p) ==
  /\ pc[p] = "rename"
  /\ \E ok \in BOOLEAN :
       IF ok /\ Exists(files, fullName)
       THEN /\ files' = Rename(files, fullName, rotateName)
            /\ pc' = [pc EXCEPT ![p] = "walk"]
            /\ UNCHANGED <<acquire, ret, tmp, timeElapsed, call>>
       ELSE /\ Return(p, 0, "rename")
            /\ UNCHANGED files
  /\ hist' = [hist EXCEPT !.renames =
                IF Exists(files, fullName)
                THEN @ \cup {<<Format(LastCreated), rotateName.stamp>>} ELSE @]
  /\ UNCHANGED <<cfgVars, logVars, fds, clockVars, b>>

\* rotate, line 97: os.Rename(l.fullName, l.rotateName), its error dropped.
RotateRename(p) ==
  /\ pc[p] = "rename"
  /\ \E ok \in BOOLEAN :
       /\ files' = IF ok THEN Rename(files, fullName, rotateName) ELSE files
       /\ call' = [call EXCEPT ![p].sideErr =
                     IF ok /\ Exists(files, fullName) THEN @ ELSE @ \cup {"rename"}]
  /\ pc' = [pc EXCEPT ![p] = "walk"]
  /\ hist' = [hist EXCEPT !.renames =
                IF Exists(files, fullName)
                THEN @ \cup {<<Format(LastCreated), rotateName.stamp>>} ELSE @]
  /\ UNCHANGED <<cfgVars, logVars, acquire, fds, clockVars, b, tmp, timeElapsed, ret>>

\* Mutant of RotateWalk: the call of pruneFiles that rotate has as a comment
\* (lines 98-100) is made before the walk.
RotateWalk_Prunes(p) ==
  /\ pc[p] = "walk"
  /\ LET stale == IF MaxFiles = 0 THEN 0
                  ELSE Max({0, Cardinality({n \in DOMAIN files :
                                              n.stem = fileNamePattern.stem
                                              /\ n.ext = fileNamePattern.ext})
                               - MaxFiles})
         kept == Remove(files,
                   {n \in DOMAIN files :
                      /\ n.stem = fileNamePattern.stem
                      /\ n.ext = fileNamePattern.ext
                      /\ Cardinality({m \in DOMAIN files :
                                        /\ m.stem = n.stem /\ m.ext = n.ext
                                        /\ NameLess(m, n)}) < stale})
     IN  \E failing \in SUBSET WalkRemoves(kept) :
           /\ files' = Remove(kept, WalkRemoves(kept) \ failing)
           /\ call' = [call EXCEPT ![p].sideErr =
                         IF failing = {} THEN @ ELSE @ \cup {"remove"}]
  /\ pc' = [pc EXCEPT ![p] = "reopen"]
  /\ UNCHANGED <<cfgVars, logVars, acquire, fds, clockVars, b, tmp, timeElapsed,
                 ret, hist>>

\* rotate, lines 103-119: the walk that deletes old ".log" files; an os.Remove
\* that fails leaves its file and the walk goes on.
RotateWalk(p) ==
  /\ pc[p] = "walk"
  /\ \E failing \in SUBSET WalkRemoves(files) :
       /\ files' = Remove(files, WalkRemoves(files) \ failing)
       /\ call' = [call EXCEPT ![p].sideErr =
                     IF failing = {} THEN @ ELSE @ \cup {"remove"}]
  /\ pc' = [pc EXCEPT ![p] = "reopen"]
  /\ UNCHANGED <<cfgVars, logVars, acquire, fds, clockVars, b, tmp, timeElapsed,
                 ret, hist>>

\* rotate, line 120, and Write, lines 162-164: return l.openNew().
RotateReopen(p) ==
  /\ pc[p] = "reopen"
  /\ \E ok \in BOOLEAN :
       /\ openNew(ok)
       /\ IF ok
          THEN /\ pc' = [pc EXCEPT ![p] = "load"]
               /\ hist' = [hist EXCEPT !.landed = 0]
               /\ UNCHANGED <<acquire, ret, tmp, timeElapsed, call>>
          ELSE /\ Return(p, 0, "open")
               /\ UNCHANGED hist
  /\ UNCHANGED <<cfgVars, clockVars, b>>

\* Mutant of AddLoad: the mutex is released once rotate has returned, not by a
\* deferred Unlock.
AddLoad_Unlocks(p) ==
  /\ pc[p] = "load"
  /\ tmp' = [tmp EXCEPT ![p] = BytesWritten]
  /\ pc' = [pc EXCEPT ![p] = "store"]
  /\ acquire' = "free"
  /\ UNCHANGED <<cfgVars, logVars, osVars, clockVars, b, timeElapsed, ret, call, hist>>

\* Write, line 165: l.BytesWritten += int64(len(b)), the read of the field ...
AddLoad(p) ==
  /\ pc[p] = "load"
  /\ tmp' = [tmp EXCEPT ![p] = BytesWritten]
  /\ pc' = [pc EXCEPT ![p] = "store"]
  /\ UNCHANGED <<cfgVars, logVars, acquire, osVars, clockVars, b, timeElapsed,
                 ret, call, hist>>

\* ... and the write of the sum back to it.
AddStore(p) ==
  /\ pc[p] = "store"
  /\ BytesWritten' = tmp[p] + b[p].len
  /\ pc' = [pc EXCEPT ![p] = "write"]
  /\ UNCHANGED <<cfgVars, fullName, rotateName, LastCreated, FileInfo, acquire,
                 osVars, clockVars, b, tmp, timeElapsed, ret, call, hist>>

\* Write, line 166: return l.FileInfo.Write(b).
FileWrite(p) ==
  /\ pc[p] = "write"
  /\ \E r \in WriteResults(fds, FileInfo, b[p]) :
       /\ files' = Append_(files, fds, FileInfo, r[1])
       /\ Return(p, r[1], r[2])
       /\ hist' = [hist EXCEPT !.clean = @ /\ r[2] = NoErr, !.landed = @ + r[1]]
  /\ UNCHANGED <<cfgVars, logVars, fds, clockVars, b>>

\* ------------------------------------------------------------ pruneFiles
\* filepath.Glob(filepath.Join(l.logPath, fmt.Sprintf(pattern, "*"))): the names
\* of the directory made of the stem of the pattern, any characters (none
\* included) and its extension, in lexical order.
GlobMatches(fs) ==
  {n \in DOMAIN fs : n.stem = fileNamePattern.stem /\ n.ext = fileNamePattern.ext}
\* matches[0 .. k-1]
FirstMatches(fs, k) ==
  {n \in GlobMatches(fs) :
     Cardinality({m \in GlobMatches(fs) : NameLess(m, n)}) < k}

\* pruneFiles, called on its own by caller p: nothing when MaxFiles is 0;
\* otherwise the first len(matches) - MaxFiles matches are removed one by one,
\* and the first os.Remove that fails ends the call with its error.
pruneFiles(p) ==
  /\ pc[p] = "pruner"
  /\ LET stale == IF MaxFiles = 0 THEN 0
                  ELSE Max({0, Cardinality(GlobMatches(files)) - MaxFiles})
     IN  \E done \in 0..stale :
           /\ files' = Remove(files, FirstMatches(files, done))
           /\ ret' = [ret EXCEPT ![p] = <<done, IF done = stale THEN NoErr ELSE "remove">>]
  /\ pc' = [pc EXCEPT ![p] = "pruned"]
  /\ UNCHANGED <<cfgVars, logVars, acquire, fds, clockVars, b, tmp, timeElapsed,
                 call, hist>>

\* ------------------------------------------------------------- the clocks
\* Time passes on the system clock.
Tick(d) ==
  /\ hist.ticks < MaxTicks
  /\ sysTime' = sysTime + d
  /\ hist' = [hist EXCEPT !.ticks = @ + 1]
  /\ UNCHANGED <<cfgVars, logVars, acquire, osVars, nowFn, fakeTime, procVars, call>>

\* A test advances the clock it has put in place of `now`.
TickFake(d) ==
  /\ nowFn = "fake"
  /\ hist.ticks < MaxTicks
  /\ fakeTime' = fakeTime + d
  /\ hist' = [hist EXCEPT !.ticks = @ + 1]
  /\ UNCHANGED <<cfgVars, logVars, acquire, osVars, nowFn, sysTime, procVars, call>>

\* ------------------------------------------------------ initial states
FileNames == {[stem |-> "app", ext |-> ".log"]}
Durations == {Hour}
MaxBytesChoices == {0, 100}
MaxFilesChoices == {0}

LogName(stem) == Name(stem, NoStamp, ".log")
OldTime == 0 - (Retention + 1)
\* Directories the writer may find: empty; a file already at the active path;
\* old files of other programs.
InitDirs ==
  { <<>>,
    [n \in {LogName("app")} |-> [ino |-> 1, size |-> 5, mtime |-> 0 - 1]],
    [n \in {LogName("aaa"), LogName("zzz")} |->
       IF n.stem = "aaa" THEN [ino |-> 1, size |-> 5, mtime |-> OldTime]
                         ELSE [ino |-> 2, size |-> 5, mtime |-> OldTime]] }

InitWith(fn) ==
  /\ fileName \in FileNames
  /\ duration \in Durations
  /\ MaxBytes \in MaxBytesChoices
  /\ MaxFiles \in MaxFilesChoices
  /\ fullName = NoName
  /\ rotateName = NoName
  /\ LastCreated = ZeroTime
  /\ FileInfo = Nil
  /\ BytesWritten = 0
  /\ acquire = "free"
  /\ files \in InitDirs
  /\ fds = <<>>
  /\ sysTime = 0
  /\ nowFn = fn
  /\ fakeTime = 0
  /\ pc = [p \in Procs |-> "idle"]
  /\ b = [p \in Procs |-> [len |-> 0, pass |-> FALSE]]
  /\ tmp = [p \in Procs |-> 0]
  /\ timeElapsed = [p \in Procs |-> 0]
  /\ ret = [p \in Procs |-> <<0, NoErr>>]
  /\ call = [p \in Procs |-> NoCall]
  /\ hist = [calls |-> 0, ticks |-> 0, clean |-> TRUE, sumLen |-> 0, landed |-> 0,
             renames |-> {}]

Init == InitWith("system")
InitInjected == InitWith("fake")

\* One caller only, making its calls one after another in a directory that
\* starts empty, with a size limit that one record reaches among the choices.
SeqMaxBytesChoices == {0, 50, 100}
InitSeq ==
  /\ fileName \in FileNames
  /\ duration \in Durations
  /\ MaxBytes \in SeqMaxBytesChoices
  /\ MaxFiles \in MaxFilesChoices
  /\ fullName = NoName
  /\ rotateName = NoName
  /\ LastCreated = ZeroTime
  /\ FileInfo = Nil
  /\ BytesWritten = 0
  /\ acquire = "free"
  /\ files = <<>>
  /\ fds = <<>>
  /\ sysTime = 0
  /\ nowFn = "system"
  /\ fakeTime = 0
  /\ pc = [p \in Procs |-> IF p = "p1" THEN "idle" ELSE "off"]
  /\ b = [p \in Procs |-> [len |-> 0, pass |-> FALSE]]
  /\ tmp = [p \in Procs |-> 0]
  /\ timeElapsed = [p \in Procs |-> 0]
  /\ ret = [p \in Procs |-> <<0, NoErr>>]
  /\ call = [p \in Procs |-> NoCall]
  /\ hist = [calls |-> 0, ticks |-> 0, clean |-> TRUE, sumLen |-> 0, landed |-> 0,
             renames |-> {}]

Write(p) ==
  \/ \E rec \in Records : WriteCall(p, rec)
  \/ Filter(p)
  \/ Lock(p)
  \/ LazyOpen(p)
  \/ RotateCheck(p)
  \/ RotateRename(p)
  \/ RotateWalk(p)
  \/ RotateReopen(p)
  \/ AddLoad(p)
  \/ AddStore(p)
  \/ FileWrite(p)

Next ==
  \/ \E p \in Procs : Write(p)
  \/ \E d \in ClockSteps : Tick(d)

NextInjected ==
  \/ Next
  \/ \E d \in ClockSteps : TickFake(d)

Spec == Init /\ [][Next]_vars
SpecInjected == InitInjected /\ [][NextInjected]_vars
SpecSeq == InitSeq /\ [][Next]_vars

\* Two callers under fair scheduling: a caller inside Write goes on to its next
\* step (the calls to the file system end), and a caller waiting for the mutex
\* gets it if the mutex comes free again and again (sync.Mutex hands the lock
\* to a waiter that has been starved).
InitFair == Init /\ MaxBytes = 0 /\ files = <<>>
Run(p) ==
  \/ Filter(p)
  \/ LazyOpen(p)
  \/ RotateCheck(p)
  \/ RotateRename(p)
  \/ RotateWalk(p)
  \/ RotateReopen(p)
  \/ AddLoad(p)
  \/ AddStore(p)
  \/ FileWrite(p)
Fairness == \A p \in Procs : WF_vars(Run(p)) /\ SF_vars(Lock(p))
SpecFair == InitFair /\ [][Next]_vars /\ Fairness

\* A writer with a limit on the number of files, in a directory that may hold
\* rotated files of earlier runs, and a second caller that calls pruneFiles
\* once, at any moment.
PruneMaxFilesChoices == {0, 1, 2}
RotatedBefore(k) == Name("app", 0 - (k + 1), ".log")
PruneDirs ==
  { <<>>,
    [n \in {RotatedBefore(1), RotatedBefore(2)} |->
       IF n = RotatedBefore(2) THEN [ino |-> 1, size |-> 5, mtime |-> 0 - 2]
                               ELSE [ino |-> 2, size |-> 5, mtime |-> 0 - 1]] }
InitPrune ==
  /\ fileName \in FileNames
  /\ duration \in Durations
  /\ MaxBytes = 0
  /\ MaxFiles \in PruneMaxFilesChoices
  /\ fullName = NoName
  /\ rotateName = NoName
  /\ LastCreated = ZeroTime
  /\ FileInfo = Nil
  /\ BytesWritten = 0
  /\ acquire = "free"
  /\ files \in PruneDirs
  /\ fds = <<>>
  /\ sysTime = 0
  /\ nowFn = "system"
  /\ fakeTime = 0
  /\ pc = [p \in Procs |-> IF p = "p1" THEN "idle" ELSE "pruner"]
  /\ b = [p \in Procs |-> [len |-> 0, pass |-> FALSE]]
  /\ tmp = [p \in Procs |-> 0]
  /\ timeElapsed = [p \in Procs |-> 0]
  /\ ret = [p \in Procs |-> <<0, NoErr>>]
  /\ call = [p \in Procs |-> NoCall]
  /\ hist = [calls |-> 0, ticks |-> 0, clean |-> TRUE, sumLen |-> 0, landed |-> 0,
             renames |-> {}]

NextPrune ==
  \/ Next
  \/ \E p \in Procs : pruneFiles(p)

SpecPrune == InitPrune /\ [][NextPrune]_vars

\* ================================================================ claims
ActivePath == Sprintf(fileNamePattern, NoStamp)
AllIdle == \A p \in Procs : pc[p] = "idle"
InWrite(p) == pc[p] \in {"load", "store", "write"}
InRotation(p) == pc[p] \in {"rename", "walk", "reopen"}
OpenFailed(p) == pc[p] \in {"open", "reopen"} /\ pc'[p] = "idle" /\ ret'[p][2] = "open"

\* C1: a Write of a record the filter rejects returns (0, nil) in the step that
\* checks the filter, and that step leaves the mutex, every field of the
\* writer, the directory and the handle table as they were.
C1_RejectedWriteChangesNothing ==
  [][\A p \in Procs :
       (pc[p] = "filter" /\ ~b[p].pass /\ pc'[p] # pc[p])
         => /\ pc'[p] = "idle"
            /\ ret'[p] = <<0, NoErr>>
            /\ UNCHANGED <<logVars, acquire, osVars>>]_vars

\* C1 witness: a rejected Write has returned (0, nil) while another caller
\* holds the mutex, and no file has been opened.
C1_Witness ==
  \E p, q \in Procs :
    /\ p # q /\ acquire = q
    /\ pc[p] = "idle" /\ b[p].len > 0 /\ ~b[p].pass /\ ret[p] = <<0, NoErr>>
    /\ FileInfo = Nil /\ BytesWritten = 0

\* C2: when every caller has returned and no Write rotated or failed, the
\* byte counter is the sum of the lengths of the accepted records.
C2_NoLostUpdate ==
  (AllIdle /\ hist.clean) => BytesWritten = hist.sumLen

\* C2 witness: both callers have written a record and the counter is the sum.
C2_Witness ==
  /\ AllIdle /\ hist.clean
  /\ \A p \in Procs : b[p].pass /\ ret[p] = <<b[p].len, NoErr>>
  /\ BytesWritten = hist.sumLen /\ hist.sumLen >= 100

\* C3: from a caller's rotation check to its write no other step changes or
\* closes the active handle or moves the active file, and the bytes of the
\* write all go to the one file at the active path.
C3_RotationAtomic ==
  [][\A p \in Procs :
       /\ InWrite(p)
            => /\ FileInfo' = FileInfo
               /\ fds'[FileInfo].open
               /\ Exists(files', fullName)
               /\ files'[fullName].ino = fds[FileInfo].ino
       /\ (pc[p] = "write" /\ pc'[p] = "idle")
            => /\ DOMAIN files' = DOMAIN files
               /\ \A m \in DOMAIN files :
                    files'[m].size =
                      files[m].size + (IF m = fullName THEN ret'[p][1] ELSE 0)]_vars

\* C3 witness: a caller has rotated and is about to write to the new file,
\* the rotated file is in the directory, and the other caller waits for the mutex.
C3_Witness ==
  \E p, q \in Procs :
    /\ p # q /\ pc[q] = "lock" /\ acquire = p
    /\ pc[p] = "write" /\ call[p].rotated
    /\ \E m \in DOMAIN files : m.stamp # NoStamp /\ files[m].size > 0
    /\ files[fullName].size = 0

\* The case of C4: MaxBytes 100, 60 bytes counted at the rotation check and
\* held by the active file when the Write began, the interval not elapsed, a
\* 50-byte record, and the counter already updated.
C4_Case(p) ==
  /\ pc[p] = "write"
  /\ MaxBytes = 100 /\ call[p].bw0 = 60 /\ b[p].len = 50
  /\ timeElapsed[p] < duration
  /\ Exists(call[p].snap[6], ActivePath)
  /\ call[p].snap[6][ActivePath].size = 60

\* C4 as stated: in that case the Write has rotated and the counter is 50.
C4_Original ==
  \A p \in Procs : C4_Case(p) => (call[p].rotated /\ BytesWritten = 50)

\* C4 as amended: in that case the Write has not rotated (60 < 100), the
\* active file is the one that was open, and the counter is 110.
C4_NoRotationBelowMax ==
  \A p \in Procs :
    C4_Case(p) =>
      /\ ~call[p].rotated
      /\ BytesWritten = 110
      /\ FileInfo = call[p].snap[4]
      /\ files = call[p].snap[6]

\* C4 witness: the case, with the counter at 110.
C4_Witness ==
  \E p \in Procs : C4_Case(p) /\ BytesWritten = 110 /\ files[fullName].size = 60

\* C5: with the clock `now` replaced and read at least an hour past the
\* creation time at the rotation check, a Write that found the file open
\* rotates.
C5_InjectedClockRotates ==
  \A p \in Procs :
    ( /\ InWrite(p) \/ InRotation(p)
      /\ nowFn = "fake" /\ duration = Hour
      /\ call[p].snap[4] # Nil
      /\ call[p].sinceNow >= Hour )
      => call[p].rotated

\* C6: after accepted Writes that neither rotated nor failed, the counter and
\* the size of the active file are both the sum of the record lengths.
C6_SizeEqualsSum ==
  (AllIdle /\ hist.clean /\ hist.sumLen > 0)
    => /\ BytesWritten = hist.sumLen
       /\ files[ActivePath].size = hist.sumLen

\* C7: whenever no Write is in progress, the counter is the number of bytes
\* the active file has taken since it was opened.
C7_CounterIsBytesWritten ==
  (acquire = "free" /\ AllIdle /\ FileInfo # Nil) => BytesWritten = hist.landed

\* C8: a Write that returns an open error returns 0 bytes and leaves the
\* fields of the writer, the directory and the handle table as they were
\* when it took the mutex.
C8_OpenErrorChangesNothing ==
  [][\A p \in Procs :
       OpenFailed(p) => (ret'[p][1] = 0 /\ Snapshot' = call[p].snap)]_vars

\* C9: after a Write that returns an open error the writer has no handle.
C9_NoHandleAfterOpenError ==
  [][\A p \in Procs : OpenFailed(p) => FileInfo' = Nil]_vars

\* C10: at most one handle is open, and none is while a rotation is between
\* its close and its reopen.
C10_OneOpenHandle ==
  /\ Cardinality(OpenHandles) <= 1
  /\ \A p \in Procs : InRotation(p) => OpenHandles = {}

\* C10 witness: a rotation has closed the first handle and opened a second.
C10_Witness ==
  /\ Len(fds) = 2 /\ ~fds[1].open /\ fds[2].open /\ FileInfo = 2
  /\ \E p \in Procs : call[p].rotated

\* C11: the files the walk of a rotation deletes are exactly the ".log" files
\* of the directory older than the retention window, wherever they stand in
\* the listing.
C11_WalkDeletesEveryOldFile ==
  \A p \in Procs :
    pc[p] = "walk"
      => WalkRemoves(files) = {n \in DOMAIN files : HasLogSuffix(n) /\ Stale(files, n)}

\* C12: two rotations whose active files were created within the same second
\* rename to the same rotated name: over the renames made so far of an
\* existing active file, the second of creation decides the stamp of the target.
C12_SameSecondSameName ==
  \A r1, r2 \in hist.renames : r1[1] = r2[1] => r1[2] = r2[2]

\* C14: every rename of a rotation moves the file at the active path to the
\* rotated path stamped with LastCreated, the creation time of the file being
\* rotated away, also after earlier renames or reopens have failed.
C14_RenameTargetsCreationStamp ==
  \A p \in Procs :
    pc[p] = "rename" /\ Exists(files, fullName)
      => /\ fullName = ActivePath
         /\ rotateName = Sprintf(fileNamePattern, Format(LastCreated))

\* The handle a call has when it comes to the check of rotate: the one the
\* writer held when the call took the mutex, or the one its lazy open made.
HandleAtCheck(p) ==
  IF call[p].snap[4] = Nil THEN Len(call[p].snap[7]) + 1 ELSE call[p].snap[4]
PastCheck(p) == InRotation(p) \/ InWrite(p)

\* C13: an accepted Write that has a handle rotates exactly when, at the check
\* before its bytes are written, the counter has reached a MaxBytes above 0 or
\* the time since LastCreated has reached duration; with MaxBytes = 0 only the
\* time makes it rotate; and one Write opens at most one file by rotation.
C13_RotatesExactlyWhenDue ==
  \A p \in Procs :
    PastCheck(p) =>
      LET sizeDue == call[p].bw0 >= MaxBytes /\ MaxBytes > 0
          timeDue == timeElapsed[p] >= duration
          rotated == InRotation(p) \/ FileInfo # HandleAtCheck(p)
      IN  /\ rotated <=> (sizeDue \/ timeDue)
          /\ (MaxBytes = 0 /\ rotated) => timeDue
          /\ FileInfo \in {HandleAtCheck(p), HandleAtCheck(p) + 1}
          /\ Len(fds) = IF InWrite(p) /\ rotated THEN HandleAtCheck(p) + 1
                        ELSE HandleAtCheck(p)

\* C13 witness: with MaxBytes = 100 a Write has rotated on the size alone, the
\* counter standing at 110 and the time not elapsed, and is about to write to
\* the new file.
C13_Witness ==
  \E p \in Procs :
    /\ pc[p] = "load"
    /\ MaxBytes = 100
    /\ call[p].bw0 = 110
    /\ timeElapsed[p] < duration
    /\ FileInfo = HandleAtCheck(p) + 1

\* C15: a failure of the close, of the rename or of a removal during a
\* rotation is not returned and does not stop the rotation: the steps up to the
\* reopen never return, and after such a failure a reopen that succeeds makes a
\* fresh open handle on the active path the handle of the writer, sets
\* LastCreated to the time of the open and BytesWritten to 0, and the Write
\* returns what the write of the record to that handle gave.
C15_SideFailuresIgnored ==
  [][\A p \in Procs :
       /\ pc[p] \in {"rotate", "rename", "walk"} => pc'[p] # "idle"
       /\ (pc[p] = "rotate" /\ pc'[p] # "rotate" /\ ~fds[FileInfo].open)
            => pc'[p] = "rename"
       /\ (pc[p] = "reopen" /\ pc'[p] = "load" /\ call[p].sideErr # {})
            => /\ FileInfo' = Len(fds) + 1
               /\ fds'[FileInfo'].open
               /\ Exists(files', ActivePath)
               /\ files'[ActivePath].ino = fds'[FileInfo'].ino
               /\ LastCreated' = now
               /\ BytesWritten' = 0
       /\ (pc[p] = "write" /\ pc'[p] = "idle" /\ call[p].sideErr # {})
            => /\ FileInfo = Len(fds)
               /\ ret'[p] \in {<<b[p].len, NoErr>>} \cup {<<k, "write">> : k \in PartialCounts}
  ]_vars

\* C15 witness: in one rotation the close, the rename and a removal have all
\* failed, and the Write is about to write its record to the reopened file.
C15_Witness ==
  \E p \in Procs :
    /\ pc[p] = "write"
    /\ call[p].sideErr = {"close", "rename", "remove"}
    /\ fds[FileInfo].open

\* The rotated files of the writer in directory fs: the names made by the
\* pattern with a time stamp.
RotatedFiles(fs) == {n \in GlobMatches(fs) : n.stamp # NoStamp}
PruneReturns(p) == pc[p] = "pruner" /\ pc'[p] = "pruned" /\ ret'[p][2] = NoErr

\* C16: a pruneFiles call that meets no delete error removes, when MaxFiles is
\* above 0 and the directory holds more than MaxFiles rotated files, exactly
\* the oldest (count - MaxFiles) rotated files in name order and leaves
\* MaxFiles of them; in every other case it removes nothing; and it never
\* removes the file at the active path.
C16_PruneKeepsMaxFiles ==
  [][\A p \in Procs :
       PruneReturns(p) =>
         LET rotated == RotatedFiles(files)
             excess == Cardinality(rotated) - MaxFiles
             deleted == DOMAIN files \ DOMAIN files'
         IN  /\ ActivePath \notin deleted
             /\ IF MaxFiles > 0 /\ excess > 0
                THEN /\ deleted =
                          {n \in rotated :
                             Cardinality({m \in rotated : NameLess(m, n)}) < excess}
                     /\ Cardinality(RotatedFiles(files')) = MaxFiles
                ELSE deleted = {}
  ]_vars

\* The rotated files of directory fs inside the retention window.
YoungRotated(fs) == {n \in RotatedFiles(fs) : ~Stale(fs, n)}
WriteStep(p) == pc[p] \notin {"off", "pruner", "pruned"} /\ pc'[p] # pc[p]

C18_EveryCallReturns ==
  /\ [][\A p \in Procs : (pc[p] # "idle" /\ pc'[p] = "idle") => acquire' # p]_vars
  /\ [](\A p \in Procs : acquire = p => pc[p] \notin {"idle", "filter", "lock"})
  /\ \A p \in Procs : (pc[p] # "idle") ~> (pc[p] = "idle")

\* C18 witness: one caller has returned the error of an open, and the other
\* caller, the second to call, holds the mutex after it.
C18_Witness ==
  \E p, q \in Procs :
    /\ p # q
    /\ pc[p] = "idle" /\ ret[p][2] = "open"
    /\ acquire = q
    /\ hist.calls = 2

\* C19: Write never makes the write on a closed handle: a call that has come
\* to the write holds an open handle, also when the call found the writer with
\* the closed handle that a failed reopen left behind (such a call has then
\* opened a new file), and the write never answers that the file is closed.
C19_NeverWritesOnClosedHandle ==
  \A p \in Procs :
    /\ InWrite(p) =>
         /\ FileInfo # Nil
         /\ fds[FileInfo].open
         /\ (call[p].snap[4] # Nil /\ ~call[p].snap[7][call[p].snap[4]].open)
              => FileInfo = Len(call[p].snap[7]) + 1
    /\ ret[p][2] # "closed"

\* C19 witness: a call that found the writer with a closed handle, left by a
\* failed reopen, is about to write on the handle of a new file.
C19_Witness ==
  \E p \in Procs :
    /\ pc[p] = "write"
    /\ call[p].snap[4] # Nil
    /\ ~call[p].snap[7][call[p].snap[4]].open
    /\ fds[FileInfo].open

\* The length of the longest record a Write is given.
LongestRecord == Max({rec.len : rec \in Records})

\* C20: with MaxBytes above 0, the counter read just before a record is written
\* is below MaxBytes, so BytesWritten never exceeds MaxBytes - 1 plus the
\* length of the longest record.
C20_OvershootAtMostOneRecord ==
  MaxBytes > 0 =>
    /\ \A p \in Procs :
         /\ pc[p] = "load" => BytesWritten < MaxBytes
         /\ pc[p] = "store" => tmp[p] < MaxBytes
         /\ pc[p] = "write" => BytesWritten <= MaxBytes - 1 + b[p].len
    /\ BytesWritten <= MaxBytes - 1 + LongestRecord

\* C20 witness: with MaxBytes = 100 a Write that found the counter at 60, below
\* the limit, has raised it to 120 and is at its write.
C20_Witness ==
  \E p \in Procs :
    /\ pc[p] = "write"
    /\ MaxBytes = 100
    /\ tmp[p] = 60
    /\ BytesWritten = 120

====
